---- MODULE Spec2Model ----
(***************************************************************************)
(* ScholarLens / ScienceQA: the offline pipeline (1_clean_data.py,         *)
(* 2_build_db.py) that fills the "exam_knowledge" vector collection, the   *)
(* /retrieve handler that queries it (rag_engine.py, main.py) and the      *)
(* quiz feedback aggregator (quiz_engine.py).                              *)
(*                                                                         *)
(* The embedding model and the nearest-neighbour ranking of the vector     *)
(* store are a black box: a query may rank the stored documents in any     *)
(* order.  A collection is the sequence of its entries in insertion order. *)
(***************************************************************************)
EXTENDS Integers, Sequences, FiniteSets, TLC

VARIABLES
    fileExists,   \* os.path.exists(DATA_FILE)
    file,         \* contents of data/cleaned_exam.json: a sequence of items
    data,         \* local data of build_knowledge_base: the items json.load gave
    exists,       \* the collection "exam_knowledge" exists in vector_store
    index,        \* entries of the collection, in insertion order
    pc,           \* position of build_knowledge_base
    ids,          \* local list ids
    documents,    \* local list documents
    metadatas,    \* local list metadatas
    i,            \* loop variable of range(0, len(ids), batch_size)
    submitted,    \* history: the collection.add calls of the current run
    failedBatch,  \* history: number of the batch whose add raised, 0 if none
    runs,         \* history: number of runs started
    prevRun,      \* history: how the run before the current one left things
    observed,     \* history: what the last reader concurrent with this run saw
    lastResults,  \* history: the result of the last collection.query
    response,     \* outcome of the last /retrieve request
    results,      \* request.results of /quiz/analyze
    feedback      \* outcome of the last /quiz/analyze request

vars == <<fileExists, file, data, exists, index, pc, ids, documents, metadatas, i,
          submitted, failedBatch, runs, prevRun, observed,
          lastResults, response, results, feedback>>

buildVars == <<data, pc, ids, documents, metadatas, i, submitted, failedBatch,
               runs, prevRun>>
storeVars == <<exists, index>>
fileVars  == <<fileExists, file>>
queryVars == <<lastResults, response>>
quizVars  == <<results, feedback>>

(***************************************************************************)
(* Bounds of the model.                                                    *)
(***************************************************************************)
MaxRecords == 2      \* longest hand-written corpus
MaxExtra == 1        \* the longest generated corpus fills one batch, plus MaxExtra items
MaxRuns == 2         \* runs of build_knowledge_base
MaxQuizResults == 3  \* longest list of quiz results

(***************************************************************************)
(* Program constants.                                                      *)
(***************************************************************************)
batch_size == 500
n_results == 2
NO_INFO == "No relevant textbook info found."
NO_DATA == "No data to analyze."

(***************************************************************************)
(* Python values.  An item is a JSON object: `keys` is the set of keys it  *)
(* has, and a key whose value is JSON null holds None.                     *)
(***************************************************************************)
None == "<None>"
Columns == {"id", "prompt", "lecture", "subject", "topic", "solution"}

Min(a, b) == IF a < b THEN a ELSE b

\* dict.get(key, default)
get(item, key, default) == IF key \in item.keys THEN item[key] ELSE default

\* bool(v) of a string or None
truthy(v) == v # None /\ v # ""

\* v or default
or(v, default) == IF truthy(v) THEN v ELSE default

\* str(v), and v inside an f-string, of a string or None
str(v) == IF v = None THEN "None" ELSE v

\* faulty variant of slice: seq[i:i+batch_size+1], one item too many
slice_overlap(seq, from) == SubSeq(seq, from + 1, Min(from + batch_size + 1, Len(seq)))

\* seq[i:i+batch_size] with i counted from 0: a Python slice stops at the end
slice(seq, from) == SubSeq(seq, from + 1, Min(from + batch_size, Len(seq)))

\* faulty variant of next_offset: a step of batch_size + 1 skips an item
next_offset_skip(from) == from + batch_size + 1

\* the step of range(0, len(ids), batch_size)
next_offset(from) == from + batch_size

\* faulty variant of join: "".join(seq)
RECURSIVE join_nospace(_)
join_nospace(seq) ==
    IF seq = <<>> THEN ""
    ELSE IF Len(seq) = 1 THEN seq[1]
    ELSE seq[1] \o join_nospace(Tail(seq))

\* " ".join(seq)
RECURSIVE join(_)
join(seq) ==
    IF seq = <<>> THEN ""
    ELSE IF Len(seq) = 1 THEN seq[1]
    ELSE seq[1] \o " " \o join(Tail(seq))

(***************************************************************************)
(* 1_clean_data.py.  A CSV is its rows, each with the wanted columns the   *)
(* file has; an empty cell is read as NaN, written to JSON as null.        *)
(***************************************************************************)
clean_data(rows) ==
    SelectSeq(rows, LAMBDA row : row["prompt"] # None /\ row["lecture"] # None)

(***************************************************************************)
(* 2_build_db.py: the body of the loop over the items.                     *)
(***************************************************************************)
combined_text(item) ==
    "Question: " \o str(get(item, "prompt", "")) \o " Context: "
        \o str(get(item, "lecture", ""))

metadata(item) ==
    [subject  |-> str(or(get(item, "subject", None), "General")),
     topic    |-> str(or(get(item, "topic", None), "General")),
     solution |-> str(or(get(item, "solution", None), ""))]

\* item['id'] raises KeyError for some item
KeyErrorId(items) == \E p \in 1..Len(items) : "id" \notin items[p].keys

\* faulty variant of add: the batch replaces what the collection held
add_replace(coll, bids, bdocs, bmeta) ==
    [p \in 1..Len(bids) |-> [id |-> bids[p], document |-> bdocs[p], metadata |-> bmeta[p]]]

\* collection.add(ids, documents, metadatas) on a collection holding none of the
\* ids (the ids of a corpus are unique and the collection was just created)
add(coll, bids, bdocs, bmeta) ==
    coll \o [p \in 1..Len(bids) |->
                [id |-> bids[p], document |-> bdocs[p], metadata |-> bmeta[p]]]

\* how much of a batch a failed add may have applied: nothing, or its first half
PartialApplied(n) == {0, n \div 2}

InProgress == {"delete", "create", "process", "batches"}
NotObserved == [seen |-> FALSE, ok |-> FALSE, docs |-> <<>>]
Ended == {"idle", "nofile", "done", "failed"}

\* lines 10-17: the run starts; DATA_FILE exists and is loaded
Start ==
    /\ pc \in Ended
    /\ runs < MaxRuns
    /\ fileExists
    /\ pc' = "delete"
    /\ runs' = runs + 1
    /\ data' = file
    /\ ids' = <<>> /\ documents' = <<>> /\ metadatas' = <<>> /\ i' = 0
    /\ submitted' = <<>> /\ failedBatch' = 0
    /\ prevRun' = [done |-> pc = "done", data |-> data, exists |-> exists,
                   docs |-> index]
    /\ observed' = NotObserved
    /\ UNCHANGED <<fileVars, storeVars, queryVars, quizVars>>

\* lines 12-14: DATA_FILE is missing, the run returns
StartNoFile ==
    /\ pc \in Ended
    /\ runs < MaxRuns
    /\ ~fileExists
    /\ pc' = "nofile"
    /\ runs' = runs + 1
    /\ UNCHANGED <<data, ids, documents, metadatas, i, submitted, failedBatch,
                   prevRun>>
    /\ UNCHANGED <<fileVars, storeVars, observed, queryVars, quizVars>>

\* lines 21-22: delete_collection drops the collection
DeleteCollection ==
    /\ pc = "delete"
    /\ exists
    /\ exists' = FALSE
    /\ index' = <<>>
    /\ pc' = "create"
    /\ UNCHANGED <<data, ids, documents, metadatas, i, submitted, failedBatch,
                   runs, prevRun>>
    /\ UNCHANGED <<fileVars, observed, queryVars, quizVars>>

\* lines 21-24: there is no such collection, delete_collection raises and the
\* bare except swallows it
DeleteCollectionRaises ==
    /\ pc = "delete"
    /\ ~exists
    /\ pc' = "create"
    /\ UNCHANGED <<data, ids, documents, metadatas, i, submitted, failedBatch,
                   runs, prevRun>>
    /\ UNCHANGED <<fileVars, storeVars, observed, queryVars, quizVars>>

\* lines 27-29: create_collection makes the empty collection (the collection
\* of that name is gone by now)
CreateCollection ==
    /\ pc = "create"
    /\ ~exists
    /\ exists' = TRUE
    /\ index' = <<>>
    /\ pc' = "process"
    /\ UNCHANGED <<data, ids, documents, metadatas, i, submitted, failedBatch,
                   runs, prevRun>>
    /\ UNCHANGED <<fileVars, observed, queryVars, quizVars>>

\* lines 31-46: every item is turned into an id, a document and a metadata
ProcessItems ==
    /\ pc = "process"
    /\ ~KeyErrorId(data)
    /\ ids' = [p \in 1..Len(data) |-> ToString(data[p]["id"])]
    /\ documents' = [p \in 1..Len(data) |-> combined_text(data[p])]
    /\ metadatas' = [p \in 1..Len(data) |-> metadata(data[p])]
    /\ i' = 0
    /\ pc' = "batches"
    /\ UNCHANGED <<data, submitted, failedBatch, runs, prevRun>>
    /\ UNCHANGED <<fileVars, storeVars, observed, queryVars, quizVars>>

\* line 40: item['id'] raises KeyError, the run ends with the exception
ProcessItemsKeyError ==
    /\ pc = "process"
    /\ KeyErrorId(data)
    /\ pc' = "failed"
    /\ UNCHANGED <<data, ids, documents, metadatas, i, submitted, failedBatch,
                   runs, prevRun>>
    /\ UNCHANGED <<fileVars, storeVars, observed, queryVars, quizVars>>

\* lines 52-64: one iteration of the batch loop
AddBatch ==
    /\ pc = "batches"
    /\ i < Len(ids)
    /\ LET batch_ids  == slice(ids, i)
           batch_docs == slice(documents, i)
           batch_meta == slice(metadatas, i)
       IN  IF batch_ids # <<>>
           THEN /\ index' = add(index, batch_ids, batch_docs, batch_meta)
                /\ submitted' = Append(submitted,
                       [ids |-> batch_ids, documents |-> batch_docs,
                        metadatas |-> batch_meta])
           ELSE UNCHANGED <<index, submitted>>
    /\ i' = next_offset(i)
    /\ UNCHANGED <<data, pc, ids, documents, metadatas, failedBatch, runs,
                   prevRun, exists>>
    /\ UNCHANGED <<fileVars, observed, queryVars, quizVars>>

\* lines 59-63: collection.add raises; nothing catches it, the run ends
AddBatchRaises ==
    /\ pc = "batches"
    /\ i < Len(ids)
    /\ LET batch_ids  == slice(ids, i)
           batch_docs == slice(documents, i)
           batch_meta == slice(metadatas, i)
       IN  /\ batch_ids # <<>>
           /\ \E n \in PartialApplied(Len(batch_ids)) :
                 index' = add(index, SubSeq(batch_ids, 1, n),
                              SubSeq(batch_docs, 1, n), SubSeq(batch_meta, 1, n))
           /\ submitted' = Append(submitted,
                  [ids |-> batch_ids, documents |-> batch_docs,
                   metadatas |-> batch_meta])
    /\ failedBatch' = Len(submitted) + 1
    /\ pc' = "failed"
    /\ UNCHANGED <<data, ids, documents, metadatas, i, runs, prevRun, exists>>
    /\ UNCHANGED <<fileVars, observed, queryVars, quizVars>>

\* lines 52, 66: the range is exhausted, the run ends normally
Finish ==
    /\ pc = "batches"
    /\ i >= Len(ids)
    /\ pc' = "done"
    /\ UNCHANGED <<data, ids, documents, metadatas, i, submitted, failedBatch,
                   runs, prevRun>>
    /\ UNCHANGED <<fileVars, storeVars, observed, queryVars, quizVars>>

Build ==
    \/ Start
    \/ StartNoFile
    \/ DeleteCollection
    \/ DeleteCollectionRaises
    \/ CreateCollection
    \/ ProcessItems
    \/ ProcessItemsKeyError
    \/ AddBatch
    \/ AddBatchRaises
    \/ Finish

(***************************************************************************)
(* rag_engine.py and main.py: POST /retrieve.                              *)
(***************************************************************************)
\* the injective sequences of m positions of a collection of n entries
Rankings(n, m) ==
    {r \in [1..m -> 1..n] : \A a, b \in 1..m : a # b => r[a] # r[b]}

\* collection.query(query_texts=[query], n_results=k): up to k entries, nearest
\* first, under whatever ranking the embedding of the question gives
query(coll, k) ==
    {[documents |-> [a \in 1..Len(r) |-> coll[r[a]].document],
      metadatas |-> [a \in 1..Len(r) |-> coll[r[a]].metadata]] :
        r \in Rankings(Len(coll), Min(k, Len(coll)))}

\* meta.get('topic', 'General'): every stored metadata has the key (metadata above)
get_topic(meta) == meta.topic

\* faulty variant of search_knowledge: the topic of the last result
search_knowledge_last_topic(res) ==
    IF res.documents = <<>>
    THEN [kind |-> "str", value |-> NO_INFO, items |-> <<>>]
    ELSE [kind |-> "tuple", value |-> "",
          items |-> <<join(res.documents),
                      get_topic(res.metadatas[Len(res.metadatas)])>>]

\* rag_engine.py lines 16-23: a str when nothing was found, else a 2-tuple
search_knowledge(res) ==
    IF res.documents = <<>>
    THEN [kind |-> "str", value |-> NO_INFO, items |-> <<>>]
    ELSE [kind |-> "tuple", value |-> "",
          items |-> <<join(res.documents),
                      get_topic(res.metadatas[1])>>]

\* len() of the value that `context, topic = ...` iterates over
unpack_len(ret) == IF ret.kind = "str" THEN Len(ret.value) ELSE Len(ret.items)

\* main.py lines 12-21: the unpacking raises ValueError unless the value has
\* exactly two elements; every exception becomes HTTP 500
retrieve_context(ret) ==
    IF unpack_len(ret) = 2 /\ ret.kind = "tuple"
    THEN [status |-> 200, answer_context |-> ret.items[1],
          source_topic |-> ret.items[2], confidence_score |-> "0.95", detail |-> ""]
    ELSE [status |-> 500, answer_context |-> "", source_topic |-> "",
          confidence_score |-> "",
          detail |-> IF unpack_len(ret) > 2
                     THEN "too many values to unpack (expected 2)"
                     ELSE "not enough values to unpack"]

NoResponse ==
    [status |-> 0, answer_context |-> "", source_topic |-> "",
     confidence_score |-> "", detail |-> ""]
NoResults == [asked |-> FALSE, documents |-> <<>>, metadatas |-> <<>>]

\* POST /retrieve while the collection exists
Retrieve ==
    /\ exists
    /\ \E res \in query(index, n_results) :
          /\ lastResults' = [asked |-> TRUE, documents |-> res.documents,
                             metadatas |-> res.metadatas]
          /\ response' = retrieve_context(search_knowledge(res))
    /\ UNCHANGED <<fileVars, storeVars, buildVars, observed, quizVars>>

\* POST /retrieve while the collection is gone: collection.query raises
RetrieveIndexError ==
    /\ ~exists
    /\ lastResults' = NoResults
    /\ response' = [status |-> 500, answer_context |-> "", source_topic |-> "",
                    confidence_score |-> "",
                    detail |-> "Collection exam_knowledge does not exist."]
    /\ UNCHANGED <<fileVars, storeVars, buildVars, observed, quizVars>>

\* rag_engine.py lines 3-13, seen from outside: the collection that a query
\* running while build_knowledge_base is at work is answered from (ok: the
\* collection is there, so the query does not raise)
Observe ==
    /\ pc \in InProgress
    /\ observed' = [seen |-> TRUE, ok |-> exists, docs |-> index]
    /\ UNCHANGED <<fileVars, storeVars, buildVars, queryVars, quizVars>>

(***************************************************************************)
(* 1_clean_data.py as a step: it rewrites data/cleaned_exam.json from a    *)
(* CSV that exists (lines 8-10 return when it does not).                   *)
(***************************************************************************)
Item(k, id, prompt, lecture, topic) ==
    [keys |-> k, id |-> id, prompt |-> prompt, lecture |-> lecture,
     subject |-> "Science", topic |-> topic, solution |-> "S"]

\* generated CSVs: n full rows, the lecture text telling two corpora apart
BatchLengths == {0, batch_size, batch_size + MaxExtra}
BigCsv(n, v) ==
    [p \in 1..n |-> Item(Columns, p, "P", v, IF p % 2 = 1 THEN "Biology" ELSE "Physics")]

\* a CSV without an id column, and one with an empty lecture cell
NoIdCsv == <<Item(Columns \ {"id"}, 0, "P", "L1", "Biology")>>
NaNCsv == <<Item(Columns, 1, "P", None, "Biology"), Item(Columns, 2, "P", "L1", None)>>

CsvInputs ==
    {BigCsv(n, "L1") : n \in BatchLengths} \cup {BigCsv(batch_size + MaxExtra, "L2")}
        \cup {NoIdCsv, NaNCsv}

RunCleanData ==
    /\ pc \in Ended
    /\ runs < MaxRuns
    /\ \E rows \in CsvInputs : file' = clean_data(rows)
    /\ fileExists' = TRUE
    /\ UNCHANGED <<storeVars, buildVars, observed, queryVars, quizVars>>

(***************************************************************************)
(* quiz_engine.py analyze_performance and main.py POST /quiz/analyze.      *)
(***************************************************************************)
RECURSIVE sum(_)
sum(scores) == IF scores = <<>> THEN 0 ELSE scores[1] + sum(Tail(scores))

\* lines 47-53: score_map after the first n results, in insertion order
RECURSIVE score_map(_, _)
score_map(res, n) ==
    IF n = 0 THEN <<>>
    ELSE LET before  == score_map(res, n - 1)
             topic   == get(res[n], "topic", "General")
             correct == IF res[n].is_correct THEN 1 ELSE 0
             at      == {e \in 1..Len(before) : before[e].topic = topic}
         IN  IF at = {}
             THEN Append(before, [topic |-> topic, scores |-> <<correct>>])
             ELSE [e \in 1..Len(before) |->
                      IF e \in at
                      THEN [before[e] EXCEPT !.scores = Append(@, correct)]
                      ELSE before[e]]

WEAKNESS(topic) == "Weakness detected in " \o topic \o ". Review the lecture notes."
PERFECT(topic) == "Perfect score in " \o topic \o "! Moving to advanced mode."
GOOD(topic) == "Good progress in " \o topic \o ". Keep practicing."

\* faulty variant of feedback_line: avg <= 0.5
feedback_line_le(topic, scores) ==
    IF 2 * sum(scores) <= Len(scores) THEN WEAKNESS(topic)
    ELSE IF sum(scores) = Len(scores) THEN PERFECT(topic)
    ELSE GOOD(topic)

\* lines 58-64, with avg = sum(scores) / len(scores) compared exactly:
\* avg < 0.5 iff 2 * sum < len, avg == 1.0 iff sum = len
feedback_line(topic, scores) ==
    IF 2 * sum(scores) < Len(scores) THEN WEAKNESS(topic)
    ELSE IF sum(scores) = Len(scores) THEN PERFECT(topic)
    ELSE GOOD(topic)

\* lines 55-64: the local list feedback_lines
feedback_lines(res) ==
    LET map == score_map(res, Len(res))
    IN  [e \in 1..Len(map) |-> feedback_line(map[e].topic, map[e].scores)]

analyze_performance(res) ==
    IF res = <<>> THEN NO_DATA ELSE join(feedback_lines(res))

NoFeedback == [done |-> FALSE, lines |-> <<>>, feedback |-> ""]

\* main.py lines 26-30
SubmitResults ==
    /\ ~feedback.done
    /\ feedback' = [done |-> TRUE,
                    lines |-> IF results = <<>> THEN <<>> ELSE feedback_lines(results),
                    feedback |-> analyze_performance(results)]
    /\ UNCHANGED <<fileVars, storeVars, buildVars, observed, queryVars, results>>

(***************************************************************************)
(* Initial states and specifications.                                      *)
(***************************************************************************)
\* hand-written items, as data/cleaned_exam.json may hold them
Shapes == {"bio", "phys", "emptyLecture", "noLecture", "noPrompt", "noId", "nullTopic"}
Shape(s, p) ==
    CASE s = "bio"          -> Item(Columns, p, "P1", "L1", "Biology")
      [] s = "phys"         -> Item(Columns, p, "P2", "L2", "Physics")
      [] s = "emptyLecture" -> Item(Columns, p, "P3", "", "Biology")
      [] s = "noLecture"    -> Item(Columns \ {"lecture"}, p, "P4", "", "Physics")
      [] s = "noPrompt"     -> Item(Columns \ {"prompt"}, p, "", "L5", "Chemistry")
      [] s = "noId"         -> Item(Columns \ {"id"}, 0, "P6", "L6", "Biology")
      [] s = "nullTopic"    -> Item(Columns \ {"subject"}, p, "P7", "L7", None)

\* ids are unique within a corpus: the item at position p has id p
SmallCorpora ==
    UNION {{[p \in 1..n |-> Shape(s[p], p)] : s \in [1..n -> Shapes]} : n \in 0..MaxRecords}

QuizTopics == {"Biology", "Physics", "General"}
QuizItems ==
    {[keys |-> {"question_id", "topic", "is_correct"}, topic |-> t, is_correct |-> c] :
        t \in QuizTopics, c \in BOOLEAN}
    \cup {[keys |-> {"question_id", "is_correct"}, topic |-> "", is_correct |-> c] :
        c \in BOOLEAN}
QuizInputs == UNION {[1..n -> QuizItems] : n \in 0..MaxQuizResults}

InitRest ==
    /\ exists = FALSE /\ index = <<>>
    /\ pc = "idle"
    /\ ids = <<>> /\ documents = <<>> /\ metadatas = <<>> /\ i = 0
    /\ submitted = <<>> /\ failedBatch = 0 /\ runs = 0
    /\ data = <<>>
    /\ prevRun = [done |-> FALSE, data |-> <<>>, exists |-> FALSE, docs |-> <<>>]
    /\ observed = NotObserved
    /\ lastResults = NoResults /\ response = NoResponse
    /\ feedback = NoFeedback

\* the build script and the server, on a data file written by hand or by an
\* earlier cleaning
Init ==
    /\ \/ fileExists = FALSE /\ file = <<>>
       \/ fileExists = TRUE /\ file \in SmallCorpora
    /\ results = <<>>
    /\ InitRest

Next == Build \/ Retrieve \/ RetrieveIndexError

Spec == Init /\ [][Next]_vars

\* the whole offline pipeline on generated CSVs, and a concurrent reader
InitBatch ==
    /\ fileExists = FALSE /\ file = <<>>
    /\ results = <<>>
    /\ InitRest

NextBatch == Build \/ RunCleanData \/ Observe

SpecBatch == InitBatch /\ [][NextBatch]_vars

\* the feedback aggregator on every short list of results
InitQuiz ==
    /\ fileExists = FALSE /\ file = <<>>
    /\ results \in QuizInputs
    /\ InitRest

NextQuiz == SubmitResults

SpecQuiz == InitQuiz /\ [][NextQuiz]_vars

(***************************************************************************)
(* What the claims speak of.                                               *)
(***************************************************************************)
\* a field that is missing, null or the empty string
EmptyField(item, key) == ~truthy(get(item, key, None))

\* a field that is there and holds the empty string
EmptyString(item, key) == key \in item.keys /\ item[key] = ""

\* a Corpus Record eligible for indexing
Eligible(item) ==
    "id" \in item.keys /\ ~EmptyField(item, "prompt") /\ ~EmptyField(item, "lecture")

\* the Indexed Document of an eligible record
DocumentText(item) == "Question: " \o item["prompt"] \o " Context: " \o item["lecture"]

\* the entries of the collection that carry the id of the item
EntriesOf(item) == {e \in 1..Len(index) : index[e].id = ToString(item["id"])}

\* the run of build_knowledge_base has ended, normally or with an exception
RunEnded == pc \in {"done", "failed"}

\* the collection a complete ingestion of the items gives
NewDocs(items) ==
    [p \in 1..Len(items) |->
        [id |-> ToString(items[p]["id"]), document |-> combined_text(items[p]),
         metadata |-> metadata(items[p])]]

\* the first n entries of a collection
Prefix(coll, n) == SubSeq(coll, 1, Min(n, Len(coll)))

\* ceil(n / batch_size)
CeilBatches(n) == (n + batch_size - 1) \div batch_size

(* C1: whenever the index query of a /retrieve request returns no document,
   the request completes normally and its answer_context is the fixed "no
   information found" message.  *)
C1_EmptyResultIsSentinel ==
    (lastResults.asked /\ lastResults.documents = <<>>)
        => (response.status = 200 /\ response.answer_context = NO_INFO)

(* C2: after a completed ingestion run no record with an empty lecture or an
   empty prompt is in the index; a corpus whose only record has an empty
   lecture leaves the index with 0 documents.  *)
C2_NoEmptyLectureIndexed ==
    pc = "done" =>
        /\ \A p \in 1..Len(data) :
              (EmptyString(data[p], "lecture") \/ EmptyString(data[p], "prompt"))
                  => EntriesOf(data[p]) = {}
        /\ (Len(data) = 1 /\ EmptyString(data[1], "lecture")) => Len(index) = 0

(* C3: when the query returns a non-empty result, source_topic is the topic
   metadata of the nearest document, whatever the other topics are.  *)
C3_TopOneTopic ==
    (lastResults.asked /\ lastResults.documents # <<>>)
        => /\ response.status = 200
           /\ response.source_topic = lastResults.metadatas[1].topic

C3_Witness ==
    /\ lastResults.asked
    /\ Len(lastResults.documents) = 2
    /\ lastResults.metadatas[1].topic # lastResults.metadatas[2].topic
    /\ response.status = 200

(* C4: when the query returns a non-empty result, it holds at most n_results
   documents and answer_context is their texts in the order returned, joined
   by single spaces.  *)
C4_ContextIsJoin ==
    (lastResults.asked /\ lastResults.documents # <<>>)
        => LET docs == lastResults.documents
           IN  /\ Len(docs) <= n_results
               /\ response.status = 200
               /\ response.answer_context =
                      (IF Len(docs) = 1 THEN docs[1] ELSE docs[1] \o " " \o docs[2])

C4_Witness ==
    /\ lastResults.asked
    /\ Len(lastResults.documents) = 2
    /\ lastResults.documents[1] # lastResults.documents[2]
    /\ response.status = 200

(* C5: when a run completes on the corpus on which the run before it
   completed, the index is what that run left: no id twice, and every
   eligible record in it exactly once with its document text.  *)
C5_IdempotentRebuild ==
    (pc = "done" /\ prevRun.done /\ prevRun.data = data)
        => /\ index = prevRun.docs
           /\ \A p \in 1..Len(data) :
                 Eligible(data[p])
                     => /\ Cardinality(EntriesOf(data[p])) = 1
                        /\ \A e \in EntriesOf(data[p]) :
                              index[e].document = DocumentText(data[p])
           /\ \A e \in 1..Len(index) :
                 \E p \in 1..Len(data) : index[e].id = ToString(data[p]["id"])
           /\ Len(index) <= Len(data)

C5_Witness ==
    /\ pc = "done" /\ prevRun.done /\ prevRun.data = data
    /\ Len(data) > batch_size
    /\ Len(index) = Len(data)

(* C6: when the upsert of a batch fails the run goes on: at its end every
   batch has been submitted and the documents of the batches that did not
   fail are in the index.  *)
C6_ContinuesAfterFailedBatch ==
    (RunEnded /\ failedBatch # 0)
        => /\ Len(submitted) = CeilBatches(Len(ids))
           /\ \A p \in 1..Len(ids) :
                 ((p - 1) \div batch_size) + 1 # failedBatch
                     => \E e \in 1..Len(index) : index[e].id = ids[p]

(* C7: a record missing id, prompt or lecture is dropped and the run does not
   fail for it: the run completes, the record is not in the index and every
   eligible record is.  *)
C7_MalformedDropped ==
    (RunEnded /\ failedBatch = 0
        /\ \E p \in 1..Len(data) : ~({"id", "prompt", "lecture"} \subseteq data[p].keys))
        => /\ pc = "done"
           /\ \A p \in 1..Len(data) :
                 /\ Eligible(data[p]) => EntriesOf(data[p]) # {}
                 /\ ("id" \in data[p].keys
                        /\ ~({"prompt", "lecture"} \subseteq data[p].keys))
                     => EntriesOf(data[p]) = {}

(* C8 as stated: a query concurrent with an ingestion run that finds the
   collection sees the complete old corpus, the complete new corpus or an
   empty index.  *)
C8_OldNewOrEmpty ==
    (observed.seen /\ observed.ok)
        => observed.docs \in {prevRun.docs, NewDocs(data), <<>>}

(* C8 amended: such a query sees the complete old corpus, an empty index or
   the first m batches of the new corpus in record order, for some m; the
   last of these is the complete new corpus.  *)
C8_OldOrWholeBatches ==
    (observed.seen /\ observed.ok)
        => \/ observed.docs = prevRun.docs
           \/ \E m \in 0..CeilBatches(Len(data)) :
                 observed.docs = Prefix(NewDocs(data), m * batch_size)

C8_Witness ==
    /\ observed.seen /\ observed.ok
    /\ prevRun.exists /\ prevRun.docs # <<>>
    /\ observed.docs = Prefix(NewDocs(data), batch_size)
    /\ observed.docs \notin {prevRun.docs, NewDocs(data), <<>>}

\* the topics of the submitted results, their counts and the message each earns
C9_Topic(r) == IF "topic" \in r.keys THEN r.topic ELSE "General"
C9_Topics == {C9_Topic(results[p]) : p \in 1..Len(results)}
C9_Count(t) == Cardinality({p \in 1..Len(results) : C9_Topic(results[p]) = t})
C9_Correct(t) ==
    Cardinality({p \in 1..Len(results) :
                    C9_Topic(results[p]) = t /\ results[p].is_correct})
C9_Message(t) ==
    IF 2 * C9_Correct(t) < C9_Count(t) THEN WEAKNESS(t)
    ELSE IF C9_Correct(t) = C9_Count(t) THEN PERFECT(t)
    ELSE GOOD(t)
C9_First(t) ==
    CHOOSE p \in 1..Len(results) :
        /\ C9_Topic(results[p]) = t
        /\ \A q \in 1..(p - 1) : C9_Topic(results[q]) # t
RECURSIVE C9_Concat(_)
C9_Concat(lines) ==
    IF Len(lines) = 1 THEN lines[1] ELSE lines[1] \o " " \o C9_Concat(Tail(lines))

(* C9: for a non-empty list of results the feedback holds one message per
   distinct topic: "Weakness detected" when fewer than half of the topic's
   results are correct, "Perfect score" when all are, "Good progress"
   otherwise; the messages are joined by spaces in the order the topics first
   appear.  For the empty list the feedback is "No data to analyze.".  *)
C9_FeedbackPerTopic ==
    feedback.done =>
        IF results = <<>>
        THEN feedback.feedback = NO_DATA
        ELSE /\ Len(feedback.lines) = Cardinality(C9_Topics)
             /\ \A t \in C9_Topics :
                   /\ Cardinality({e \in 1..Len(feedback.lines) :
                                      feedback.lines[e] = C9_Message(t)}) = 1
                   /\ \A u \in C9_Topics :
                         C9_First(t) < C9_First(u)
                             => \E e, f \in 1..Len(feedback.lines) :
                                   /\ e < f
                                   /\ feedback.lines[e] = C9_Message(t)
                                   /\ feedback.lines[f] = C9_Message(u)
             /\ feedback.feedback = C9_Concat(feedback.lines)

C9_Witness ==
    /\ feedback.done
    /\ Cardinality(C9_Topics) >= 2
    /\ \E t \in C9_Topics : C9_Count(t) = 2 /\ C9_Correct(t) = 1
    /\ \E t \in C9_Topics : C9_Correct(t) = 0

\* the number of documents in a sequence of submitted batches
RECURSIVE C10_Total(_)
C10_Total(batches) ==
    IF batches = <<>> THEN 0 ELSE Len(batches[1].ids) + C10_Total(Tail(batches))

(* C10: a completed run has submitted ceil(n / 500) batches for a corpus of n
   documents; every batch is non-empty and holds at most 500 documents, and
   the batches are the documents in record order, each once, with its id and
   metadata at its position.  *)
C10_Batches ==
    pc = "done" =>
        /\ Len(submitted) = CeilBatches(Len(data))
        /\ C10_Total(submitted) = Len(data)
        /\ \A b \in 1..Len(submitted) :
              LET batch == submitted[b]
                  off   == (b - 1) * batch_size
              IN  /\ Len(batch.ids) \in 1..batch_size
                  /\ Len(batch.documents) = Len(batch.ids)
                  /\ Len(batch.metadatas) = Len(batch.ids)
                  /\ off + Len(batch.ids) <= Len(data)
                  /\ \A j \in 1..Len(batch.ids) :
                        /\ batch.ids[j] = ToString(data[off + j]["id"])
                        /\ batch.documents[j] = combined_text(data[off + j])
                        /\ batch.metadatas[j] = metadata(data[off + j])

C10_Witness ==
    /\ pc = "done"
    /\ Len(submitted) = 2
    /\ Len(submitted[1].ids) = batch_size
    /\ Len(submitted[2].ids) < batch_size

====
